---- MODULE Spec2Model ----
(***************************************************************************)
(* fixmp4.py: the per-item remux pipeline (process_dir), its monitor loop, *)
(* the scanner (main), and the item directory and state record on disk.    *)
(*                                                                         *)
(* A run is one invocation of the script.  It can be killed at any point   *)
(* (Kill); the kill takes the conversion child with it, and the next run   *)
(* starts from whatever the killed run left on disk.                       *)
(*                                                                         *)
(* File names are sequences of dot-separated components                    *)
(* (<<"clip","mp4">> is clip.mp4); file contents are [gen, size]: gen 0    *)
(* are the bytes of an original video, gen k+1 the bytes ffmpeg writes     *)
(* when remuxing gen k, size the number of blocks written.                 *)
(***************************************************************************)
EXTENDS Integers, Sequences, FiniteSets, TLC

\* ------------------------------------------------------------------ bounds
MaxRuns == 2      \* invocations of the script (each ends normally, fatally or killed)
MaxSize == 2      \* blocks ffmpeg writes to its output before it exits
MaxTmp == 2       \* candidate names tempfile._get_candidate_names() draws from
MaxStreams == 4   \* streams in a probe result

\* --------------------------------------------------------------- constants
STATUS_COMPLETE == "complete"
BLOCKED_CODECS == {"eia_608"}
VideoExts == {"m4v", "mp4"}

\* The scan root holds these item directories; sorted(dirs) is this order.
dirs == <<"movie", "show">>
Items == 1..Len(dirs)

\* ------------------------------------------------------------ dictionaries
\* A Python dict / JSON object is a function from its keys.
EmptyDict == [k \in {} |-> 0]
Put(d, k, v) == [y \in DOMAIN d \cup {k} |-> IF y = k THEN v ELSE d[y]]
Get(d, k, default) == IF k \in DOMAIN d THEN d[k] ELSE default

\* --------------------------------------------------------------- file names
\* os.path.splitext(x)[1] without its dot: the last component, "" if none.
Splitext(x) == IF Len(x) > 1 THEN x[Len(x)] ELSE ""

\* str.lower() on the extensions that occur.
Lower(s) ==
  CASE s = "MP4" -> "mp4"
    [] s = "M4V" -> "m4v"
    [] s = "ORIG" -> "orig"
    [] OTHER -> s

\* x is kept by the list comprehension of line 122.
IsVideo(x) == Lower(Splitext(x)) \in VideoExts

\* video + ".orig"
OrigName(x) == Append(x, "orig")

\* os.path.basename(dirname) + ".mp4" / ".json"
Basename(i) == dirs[i]
\* TargetName with the extension forgotten.
TargetNameNoExt(i) == <<Basename(i)>>
TargetName(i) == <<Basename(i), "mp4">>

\* next(tempfile._get_candidate_names()) + ".mp4": a random name of the pool.
TmpNameOf(k) == <<"tmp" \o ToString(k), "mp4">>
TmpNames == {TmpNameOf(k) : k \in 1..MaxTmp}

\* ------------------------------------------------------------ file contents
OriginalBytes == [gen |-> 0, size |-> 1]

\* hashlib.md5 over the file's bytes: equal bytes, equal digest, and no collisions.
Md5(c) == [md5of |-> c]

\* A directory listing: a function from the names present to their contents.
Names(f) == DOMAIN f
Remove(f, n) == [x \in DOMAIN f \ {n} |-> f[x]]
WriteFile(f, n, c) == [x \in DOMAIN f \cup {n} |-> IF x = n THEN c ELSE f[x]]
\* os.rename(src, dst): dst is replaced when it exists (POSIX).
Rename(f, src, dst) ==
  IF src = dst THEN f
  ELSE [x \in (DOMAIN f \ {src}) \cup {dst} |-> IF x = dst THEN f[src] ELSE f[x]]

\* What an item directory holds before the first run.
InitialListings ==
  { [n \in {<<"clip", "mp4">>} |-> OriginalBytes],
    [n \in {<<"notes", "txt">>} |-> OriginalBytes],
    [n \in {<<"clip", "mp4">>, <<"extra", "M4V">>} |-> OriginalBytes] }

\* ----------------------------------------------------------- probe results
\* ffprobe's "streams" array, as far as get_blocked_streams reads it.
ProbeOutputs ==
  { <<[index |-> 0, codec_name |-> "h264"]>>,
    <<[index |-> 0, codec_name |-> "h264"], [index |-> 1, codec_name |-> "eia_608"]>> }

\* f"0:{stream.get('index')}", line 98: str() of the index, or of None.
Selector(s) == "0:" \o (IF "index" \in DOMAIN s THEN ToString(s.index) ELSE "None")

\* BlockedOf with the selectors appended in front: the reverse of probe order.
RECURSIVE BlockedOfReversed(_)
BlockedOfReversed(output) ==
  IF output = <<>> THEN <<>>
  ELSE LET s == Head(output)
           rest == BlockedOfReversed(Tail(output))
       IN IF Get(s, "codec_name", "None") \in BLOCKED_CODECS
          THEN rest \o <<Selector(s)>>
          ELSE rest

\* get_blocked_streams, lines 96-100, over the streams array of the probe.
RECURSIVE BlockedOf(_)
BlockedOf(output) ==
  IF output = <<>> THEN <<>>
  ELSE LET s == Head(output)
           rest == BlockedOf(Tail(output))
       IN IF Get(s, "codec_name", "None") \in BLOCKED_CODECS
          THEN <<Selector(s)>> \o rest
          ELSE rest

\* A file name as the string the file system knows: components joined by dots.
RECURSIVE NameString(_)
NameString(n) ==
  IF Len(n) = 1 THEN n[1] ELSE n[1] \o "." \o NameString(Tail(n))

\* os.path.join(dirname, name).
PathJoin(dirname, n) == dirname \o "/" \o NameString(n)

\* transcode, lines 165-166: two arguments for each blocked track.
RECURSIVE MapArgs(_)
MapArgs(tracks) ==
  IF tracks = <<>> THEN <<>>
  ELSE <<"-map", "-" \o Head(tracks)>> \o MapArgs(Tail(tracks))

\* transcode, lines 154-167: the ffmpeg command.
Outcommand(dirname, v, tracks, out) ==
  <<"ffmpeg", "-v", "warning", "-i", PathJoin(dirname, v), "-c", "copy", "-map", "0">>
    \o MapArgs(tracks) \o <<PathJoin(dirname, out)>>

\* ------------------------------------------------------------------- state
VARIABLES
  root,            \* "dir" or "notdir": what the command-line argument names
  files,           \* files[i]: the listing of item directory i, the record aside
  rec,             \* rec[i]: <basename>.json on disk: absent, torn, or a dict
  pc,              \* where the running script is; "idle" between runs
  idx,             \* main's position in dirs
  json_metadata,   \* process_dir's in-memory record
  video,           \* process_dir's video
  outfilename,     \* process_dir's outfilename
  blocked_tracks,  \* process_dir's blocked_tracks
  child,           \* the Process p and its ffmpeg: "none", "started", "writing", "exited"
  p_exitcode,      \* p.exitcode as the monitor sees it: "None" or "0"
  ffmpeg_rc,       \* ffmpeg's own return code: "None", "0" or "1"
  old_filesize,    \* the monitor's old_filesize
  pbar,            \* the sum of the monitor's pbar.update() calls
  ending,          \* how the last run that ended did end; "none" before any has
  runs,            \* runs started so far
  md5calls,        \* md5calls[i]: original digests computed for item i, over all runs
  did,             \* what the current process_dir call has done so far
  streams,         \* ffprobe's streams array; held only where the probe is studied
  outcommand       \* transcode's outcommand; held only where the probe is studied

vars == <<root, files, rec, pc, idx, json_metadata, video, outfilename, blocked_tracks,
          child, p_exitcode, ffmpeg_rc, old_filesize, pbar, ending, runs, md5calls, did,
          streams, outcommand>>

NoName == <<>>
Absent == [state |-> "absent", data |-> EmptyDict]
Torn == [state |-> "torn", data |-> EmptyDict]
OnDisk(d) == [state |-> "ok", data |-> d]

\* The script's memory, as it is when no process_dir call is under way.
ClearLocals ==
  /\ json_metadata' = EmptyDict
  /\ video' = NoName
  /\ outfilename' = NoName
  /\ blocked_tracks' = <<>>
  /\ child' = "none"
  /\ p_exitcode' = "None"
  /\ ffmpeg_rc' = "None"
  /\ old_filesize' = 0
  /\ pbar' = 0

KeepLocals ==
  UNCHANGED <<json_metadata, video, outfilename, blocked_tracks, child, p_exitcode,
              ffmpeg_rc, old_filesize, pbar>>

KeepMonitor == UNCHANGED <<child, p_exitcode, ffmpeg_rc, old_filesize, pbar>>

Init ==
  /\ \/ root = "dir" /\ files \in [Items -> InitialListings]
     \/ root = "notdir" /\ files = [i \in Items |-> EmptyDict]
  /\ rec = [i \in Items |-> Absent]
  /\ pc = "idle"
  /\ idx = 1
  /\ json_metadata = EmptyDict
  /\ video = NoName
  /\ outfilename = NoName
  /\ blocked_tracks = <<>>
  /\ child = "none"
  /\ p_exitcode = "None"
  /\ ffmpeg_rc = "None"
  /\ old_filesize = 0
  /\ pbar = 0
  /\ ending = "none"
  /\ runs = 0
  /\ md5calls = [i \in Items |-> 0]
  /\ did = {}
  /\ streams = <<>>
  /\ outcommand = <<>>

\* ------------------------------------------------------------ ends of a run
\* The process is gone: sys.exit, an uncaught exception, or main returning.
EndRun(how) ==
  /\ pc' = "idle"
  /\ ending' = how
  /\ ClearLocals

\* The exit status the shell sees.
ExitCode(how) ==
  CASE how = "ok" -> 0
    [] how \in {"notdir", "probe", "zero"} -> 1     \* sys.exit(1)
    [] how = "exception" -> 1                       \* uncaught exception
    [] OTHER -> -9                                  \* killed

\* The script is started.
StartRun ==
  /\ pc = "idle"
  /\ runs < MaxRuns
  /\ runs' = runs + 1
  /\ pc' = "main"
  /\ idx' = 1
  /\ did' = {}
  /\ UNCHANGED <<streams, outcommand, root, files, rec, md5calls, ending>>
  /\ KeepLocals

\* The process (and its conversion child) is killed, at any point.
Kill ==
  /\ pc # "idle"
  /\ EndRun("killed")
  /\ UNCHANGED <<streams, outcommand, root, files, rec, idx, runs, md5calls, did>>

\* main, lines 240-253: the root check and the sorted listing.
Main ==
  /\ pc = "main"
  /\ IF root # "dir"
     THEN EndRun("notdir") /\ UNCHANGED <<idx, did>>
     ELSE /\ pc' = "load"
          /\ idx' = 1
          /\ did' = {}
          /\ ending' = ending
          /\ KeepLocals
  /\ UNCHANGED <<streams, outcommand, root, files, rec, runs, md5calls>>

\* process_dir returns, and main's loop takes the next directory or ends.
Return ==
  /\ pc = "return"
  /\ IF idx < Len(dirs)
     THEN /\ idx' = idx + 1
          /\ pc' = "load"
          /\ did' = {}
          /\ ending' = ending
          /\ ClearLocals
     ELSE EndRun("ok") /\ UNCHANGED <<idx, did>>
  /\ UNCHANGED <<streams, outcommand, root, files, rec, runs, md5calls>>

\* ------------------------------------------------------------- process_dir
\* Shorthands for the frame of a process_dir step on the current item.
Disk == <<files, rec>>
Scan == <<root, idx, runs, ending, streams, outcommand>>

\* Load without the test of line 116: a complete item is processed again.
LoadNoSkip ==
  /\ pc = "load"
  /\ IF rec[idx].state = "torn"
     THEN EndRun("exception") /\ UNCHANGED <<streams, outcommand, root, idx, runs>>
     ELSE /\ json_metadata' = IF rec[idx].state = "ok" THEN rec[idx].data ELSE EmptyDict
          /\ pc' = "list"
          /\ UNCHANGED <<video, outfilename, blocked_tracks>>
          /\ KeepMonitor
          /\ UNCHANGED Scan
  /\ UNCHANGED <<files, rec, md5calls, did>>

\* Lines 105-118: the record is loaded when present; a complete item is skipped.
\* json.load raises on a file that holds no complete JSON document.
Load ==
  /\ pc = "load"
  /\ IF rec[idx].state = "torn"
     THEN EndRun("exception") /\ UNCHANGED <<streams, outcommand, root, idx, runs>>
     ELSE /\ json_metadata' = IF rec[idx].state = "ok" THEN rec[idx].data ELSE EmptyDict
          /\ pc' = IF Get(json_metadata', "status", "") = STATUS_COMPLETE
                   THEN "return" ELSE "list"
          /\ UNCHANGED <<video, outfilename, blocked_tracks>>
          /\ KeepMonitor
          /\ UNCHANGED Scan
  /\ UNCHANGED <<files, rec, md5calls, did>>

\* Line 122: the entries of the directory with a video extension.
Videos(i) == {x \in Names(files[i]) : IsVideo(x)}

\* List without the test of line 128: of several videos the first is taken.
ListTakesFirst ==
  /\ pc = "list"
  /\ IF Cardinality(Videos(idx)) >= 1
     THEN /\ video' = CHOOSE x \in Videos(idx) : TRUE
          /\ pc' = "md5orig"
     ELSE /\ video' = video
          /\ pc' = "return"
  /\ UNCHANGED <<json_metadata, outfilename, blocked_tracks, md5calls, did>>
  /\ KeepMonitor
  /\ UNCHANGED Disk
  /\ UNCHANGED Scan

\* Lines 120-133: exactly one video, or the item is skipped.
List ==
  /\ pc = "list"
  /\ IF Cardinality(Videos(idx)) = 1
     THEN /\ video' = CHOOSE x \in Videos(idx) : TRUE
          /\ pc' = "md5orig"
     ELSE /\ video' = video
          /\ pc' = "return"
  /\ UNCHANGED <<json_metadata, outfilename, blocked_tracks, md5calls, did>>
  /\ KeepMonitor
  /\ UNCHANGED Disk
  /\ UNCHANGED Scan

\* Md5Original without the test of line 136: the digest is computed every run.
Md5OriginalAlways ==
  /\ pc = "md5orig"
  /\ json_metadata' = Put(json_metadata, "original",
                          [filename |-> video, md5 |-> Md5(files[idx][video])])
  /\ md5calls' = [md5calls EXCEPT ![idx] = @ + 1]
  /\ did' = did \cup {"md5orig"}
  /\ pc' = "open1"
  /\ UNCHANGED <<video, outfilename, blocked_tracks>>
  /\ KeepMonitor
  /\ UNCHANGED Disk
  /\ UNCHANGED Scan

\* Lines 135-141: the original's digest, when the record has none.
Md5Original ==
  /\ pc = "md5orig"
  /\ IF "md5" \notin DOMAIN Get(json_metadata, "original", EmptyDict)
     THEN /\ json_metadata' = Put(json_metadata, "original",
                                  [filename |-> video, md5 |-> Md5(files[idx][video])])
          /\ md5calls' = [md5calls EXCEPT ![idx] = @ + 1]
          /\ did' = did \cup {"md5orig"}
     ELSE UNCHANGED <<json_metadata, md5calls, did>>
  /\ pc' = "open1"
  /\ UNCHANGED <<video, outfilename, blocked_tracks>>
  /\ KeepMonitor
  /\ UNCHANGED Disk
  /\ UNCHANGED Scan

\* open(json_metafile, "w"): the file is truncated before anything is written.
OpenRecord(at, to) ==
  /\ pc = at
  /\ rec' = [rec EXCEPT ![idx] = Torn]
  /\ did' = did \cup {"write"}
  /\ pc' = to
  /\ UNCHANGED <<files, md5calls>>
  /\ UNCHANGED Scan

\* json.dump(json_metadata, f) and the close of the with block.
DumpRecord(at, to) ==
  /\ pc = at
  /\ rec' = [rec EXCEPT ![idx] = OnDisk(json_metadata)]
  /\ pc' = to
  /\ UNCHANGED <<files, md5calls, did>>
  /\ UNCHANGED Scan
  /\ KeepLocals

\* Lines 143-144.
Open1 == OpenRecord("open1", "dump1") /\ KeepLocals
Dump1 == DumpRecord("dump1", "tmpname")

\* The pool names the directory has seen: n itself or n.orig is in it.
Touched(i) == {n \in TmpNames : n \in Names(files[i]) \/ OrigName(n) \in Names(files[i])}

\* The names the draw of line 147 can give, up to the choice among the names
\* the directory has never seen, which are interchangeable: the first of them
\* stands for all.
Candidates147(i) ==
  Touched(i) \cup
    {TmpNameOf(k) : k \in {j \in 1..MaxTmp :
                             /\ TmpNameOf(j) \notin Touched(i)
                             /\ \A h \in 1..(j - 1) : TmpNameOf(h) \in Touched(i)}}

\* Line 147: a random candidate name; nothing checks it against the directory.
TmpName ==
  /\ pc = "tmpname"
  /\ \E n \in Candidates147(idx) : outfilename' = n
  /\ pc' = "probe"
  /\ UNCHANGED <<json_metadata, video, blocked_tracks, md5calls, did>>
  /\ KeepMonitor
  /\ UNCHANGED Disk
  /\ UNCHANGED Scan

\* ProbeFails with a return in place of sys.exit(1): the item is given up and
\* the scan goes on.
ProbeFailsSkips ==
  /\ pc = "probe"
  /\ pc' = "return"
  /\ did' = did \cup {"probe"}
  /\ UNCHANGED <<md5calls>>
  /\ KeepLocals
  /\ UNCHANGED Disk
  /\ UNCHANGED Scan

\* get_blocked_streams, lines 92-94: ffprobe fails and the run exits.
ProbeFails ==
  /\ pc = "probe"
  /\ EndRun("probe")
  /\ did' = did \cup {"probe"}
  /\ UNCHANGED <<streams, outcommand, root, idx, runs, md5calls>>
  /\ UNCHANGED Disk

\* get_blocked_streams, lines 96-100, and line 149.
ProbeOk ==
  /\ pc = "probe"
  /\ \E out \in ProbeOutputs : blocked_tracks' = BlockedOf(out)
  /\ did' = did \cup {"probe"}
  /\ pc' = "start"
  /\ UNCHANGED <<json_metadata, video, outfilename, md5calls>>
  /\ KeepMonitor
  /\ UNCHANGED Disk
  /\ UNCHANGED Scan

\* Lines 171-174: the ffmpeg version is noted and the child is started.
StartChild ==
  /\ pc = "start"
  /\ json_metadata' = Put(json_metadata, "ffmpeg", "ffmpeg version")
  /\ child' = "started"
  /\ did' = did \cup {"ffmpeg"}
  /\ pc' = "poll"
  /\ UNCHANGED <<video, outfilename, blocked_tracks, p_exitcode, ffmpeg_rc,
                 old_filesize, pbar, md5calls>>
  /\ UNCHANGED Disk
  /\ UNCHANGED Scan

\* ------------------------------------------------- the child: transcode()
\* The child changes nothing but the output file and its own state.
ChildFrame ==
  /\ UNCHANGED <<rec, pc, json_metadata, video, outfilename,
                 p_exitcode, old_filesize, pbar, md5calls, did>>
  /\ UNCHANGED Scan

\* Lines 154-169: transcode builds its command from blocked_tracks and runs it;
\* nothing reads the list after that, and the model drops it there.
CommandBuilt == blocked_tracks' = <<>>

\* ffmpeg ends without writing: it cannot read the input, or the output path
\* exists (no -y is given, and the child's stdin answers no prompt).
FfmpegNoOutput ==
  /\ child = "started"
  /\ child' = "exited"
  /\ ffmpeg_rc' = "1"
  /\ CommandBuilt
  /\ UNCHANGED files
  /\ ChildFrame

\* ffmpeg creates the output file.
FfmpegCreate ==
  /\ child = "started"
  /\ outfilename \notin Names(files[idx])
  /\ files' = [files EXCEPT ![idx] =
                 WriteFile(@, outfilename, [gen |-> @[video].gen + 1, size |-> 0])]
  /\ child' = "writing"
  /\ CommandBuilt
  /\ UNCHANGED ffmpeg_rc
  /\ ChildFrame

\* ffmpeg writes one more block.
FfmpegWrite ==
  /\ child = "writing"
  /\ files[idx][outfilename].size < MaxSize
  /\ files' = [files EXCEPT ![idx][outfilename].size = @ + 1]
  /\ UNCHANGED <<child, ffmpeg_rc, blocked_tracks>>
  /\ ChildFrame

\* ffmpeg exits, with whatever code; line 169 drops it and transcode returns.
FfmpegExit ==
  /\ child = "writing"
  /\ \E rc \in {"0", "1"} : ffmpeg_rc' = rc
  /\ child' = "exited"
  /\ UNCHANGED <<files, blocked_tracks>>
  /\ ChildFrame

\* ------------------------------------------------------- the monitor loop
\* Lines 186-190: the join times out or ends, and the output is measured.
Poll ==
  /\ pc = "poll"
  /\ IF outfilename \in Names(files[idx])
     THEN LET filesize == files[idx][outfilename].size
          IN /\ pbar' = pbar + (filesize - old_filesize)
             /\ old_filesize' = filesize
     ELSE UNCHANGED <<pbar, old_filesize>>
  /\ pc' = "exitcode"
  /\ UNCHANGED <<json_metadata, video, outfilename, blocked_tracks, child, p_exitcode,
                 ffmpeg_rc, md5calls, did>>
  /\ UNCHANGED Disk
  /\ UNCHANGED Scan

\* CheckExit with the output file taken as the sign of completion: the loop
\* ends as soon as the output holds something.
CheckExitOnFile ==
  /\ pc = "exitcode"
  /\ IF child = "exited"
     THEN p_exitcode' = "0" /\ pc' = "checksize"
     ELSE /\ p_exitcode' = p_exitcode
          /\ pc' = IF old_filesize > 0 THEN "checksize" ELSE "poll"
  /\ UNCHANGED <<json_metadata, video, outfilename, blocked_tracks, child, ffmpeg_rc,
                 old_filesize, pbar, md5calls, did>>
  /\ UNCHANGED Disk
  /\ UNCHANGED Scan

\* Lines 191-192: the loop ends once the Process has an exit code; transcode
\* returned normally, so that code is 0 whatever ffmpeg's was.
CheckExit ==
  /\ pc = "exitcode"
  /\ IF child = "exited"
     THEN p_exitcode' = "0" /\ pc' = "checksize"
     ELSE p_exitcode' = p_exitcode /\ pc' = "poll"
  /\ UNCHANGED <<json_metadata, video, outfilename, blocked_tracks, child, ffmpeg_rc,
                 old_filesize, pbar, md5calls, did>>
  /\ UNCHANGED Disk
  /\ UNCHANGED Scan

\* ---------------------------------------------------- after the conversion
\* CheckSize without the test of line 196: an empty output is kept and used.
CheckSizeKeepsEmpty ==
  /\ pc = "checksize"
  /\ IF outfilename \notin Names(files[idx])
     THEN EndRun("exception") /\ UNCHANGED <<streams, outcommand, root, idx, runs>>
     ELSE /\ pc' = "open2"
          /\ json_metadata' = Put(json_metadata, "new", [filename |-> outfilename])
          /\ old_filesize' = 0
          /\ pbar' = 0
          /\ UNCHANGED <<video, outfilename, blocked_tracks, child, p_exitcode, ffmpeg_rc>>
          /\ UNCHANGED Scan
  /\ UNCHANGED <<md5calls, did>>
  /\ UNCHANGED Disk

\* Lines 194-201: os.path.getsize raises when ffmpeg wrote no file.  The with
\* block of the progress bar is over: the bar is closed, old_filesize is dead.
CheckSize ==
  /\ pc = "checksize"
  /\ IF outfilename \notin Names(files[idx])
     THEN EndRun("exception") /\ UNCHANGED <<streams, outcommand, root, idx, runs>>
     ELSE /\ IF files[idx][outfilename].size = 0
             THEN pc' = "remove" /\ UNCHANGED json_metadata
             ELSE /\ pc' = "open2"
                  /\ json_metadata' = Put(json_metadata, "new", [filename |-> outfilename])
          /\ old_filesize' = 0
          /\ pbar' = 0
          /\ UNCHANGED <<video, outfilename, blocked_tracks, child, p_exitcode, ffmpeg_rc>>
          /\ UNCHANGED Scan
  /\ UNCHANGED <<md5calls, did>>
  /\ UNCHANGED Disk

\* Lines 197-199: the empty output is removed and the run exits.
RemoveEmpty ==
  /\ pc = "remove"
  /\ files' = [files EXCEPT ![idx] = Remove(@, outfilename)]
  /\ did' = did \cup {"removed"}
  /\ EndRun("zero")
  /\ UNCHANGED <<streams, outcommand, root, rec, idx, runs, md5calls>>

\* Lines 204-205.
Open2 == OpenRecord("open2", "dump2") /\ KeepLocals
Dump2 == DumpRecord("dump2", "md5new")

\* Lines 207-209: the output's digest.
Md5New ==
  /\ pc = "md5new"
  /\ json_metadata' = Put(json_metadata, "new",
                          Put(json_metadata.new, "md5", Md5(files[idx][outfilename])))
  /\ did' = did \cup {"md5new"}
  /\ pc' = "rename1"
  /\ UNCHANGED <<video, outfilename, blocked_tracks, md5calls>>
  /\ KeepMonitor
  /\ UNCHANGED Disk
  /\ UNCHANGED Scan

\* RenameFails with the OSError caught and passed over: the driver goes on.
RenameFailsIgnored(at) ==
  /\ pc = at
  /\ did' = did \cup {"rename_failed"}
  /\ pc' = IF at = "rename1" THEN "rename2" ELSE "open3"
  /\ UNCHANGED <<md5calls>>
  /\ KeepLocals
  /\ UNCHANGED Disk
  /\ UNCHANGED Scan

\* os.rename raises OSError: nothing catches it and the run dies.
RenameFails(at) ==
  /\ pc = at
  /\ did' = did \cup {"rename_failed"}
  /\ EndRun("exception")
  /\ UNCHANGED <<streams, outcommand, root, idx, runs, md5calls>>
  /\ UNCHANGED Disk

\* Lines 212-214: the original gets its .orig suffix.
Rename1 ==
  /\ pc = "rename1"
  /\ video \in Names(files[idx])
  /\ files' = [files EXCEPT ![idx] = Rename(@, video, OrigName(video))]
  /\ json_metadata' = Put(json_metadata, "original",
                          Put(json_metadata.original, "target", OrigName(video)))
  /\ did' = did \cup {"rename1"}
  /\ pc' = "rename2"
  /\ UNCHANGED <<rec, video, outfilename, blocked_tracks, md5calls>>
  /\ KeepMonitor
  /\ UNCHANGED Scan

Rename1Fails == RenameFails("rename1")

\* Lines 216-219: the output takes the directory's name.
Rename2 ==
  /\ pc = "rename2"
  /\ outfilename \in Names(files[idx])
  /\ files' = [files EXCEPT ![idx] = Rename(@, outfilename, TargetName(idx))]
  /\ json_metadata' = Put(json_metadata, "new",
                          Put(json_metadata.new, "target", TargetName(idx)))
  /\ did' = did \cup {"rename2"}
  /\ pc' = "open3"
  /\ UNCHANGED <<rec, video, outfilename, blocked_tracks, md5calls>>
  /\ KeepMonitor
  /\ UNCHANGED Scan

Rename2Fails == RenameFails("rename2")

\* Stamped without line 226: the status and the integer time only.
StampedNoIso(md, now) ==
  Put(Put(md, "status", STATUS_COMPLETE), "timestamp", now)

\* Lines 223-226: the completion stamp; the run number stands for the clock.
Stamped(md, now) ==
  Put(Put(Put(md, "status", STATUS_COMPLETE), "timestamp", now),
      "isotimestamp", <<"iso", ToString(now)>>)

\* Lines 223-228.
Open3 ==
  /\ OpenRecord("open3", "dump3")
  /\ json_metadata' = Stamped(json_metadata, runs)
  /\ UNCHANGED <<video, outfilename, blocked_tracks>>
  /\ KeepMonitor

\* Line 229.
Dump3 == DumpRecord("dump3", "return")

Next ==
  \/ StartRun \/ Kill \/ Main \/ Return
  \/ Load \/ List \/ Md5Original \/ Open1 \/ Dump1 \/ TmpName
  \/ ProbeFails \/ ProbeOk \/ StartChild
  \/ FfmpegNoOutput \/ FfmpegCreate \/ FfmpegWrite \/ FfmpegExit
  \/ Poll \/ CheckExit \/ CheckSize \/ RemoveEmpty
  \/ Open2 \/ Dump2 \/ Md5New
  \/ Rename1 \/ Rename1Fails \/ Rename2 \/ Rename2Fails
  \/ Open3 \/ Dump3

Spec == Init /\ [][Next]_vars

\* The script is scheduled: while it is in the monitor loop, the join of line
\* 186 times out or returns, and the test of line 191 is made.
FairSpec == Spec /\ WF_vars(Poll) /\ WF_vars(CheckExit)

\* --------------------------------------- the probe and the command, alone
\* What a stream of the probe's output can look like to get_blocked_streams:
\* video, audio, closed captions, and a stream ffprobe gives no codec_name.
StreamAt(k) ==
  { [index |-> k, codec_name |-> "h264"],
    [index |-> k, codec_name |-> "aac"],
    [index |-> k, codec_name |-> "eia_608"],
    [index |-> k] }

\* ffprobe's streams arrays: each stream's index is its place, from 0.
ProbeResults ==
  UNION { {st \in [1..n -> UNION {StreamAt(k) : k \in 0..(n - 1)}] :
             \A k \in 1..n : st[k].index = k - 1} : n \in 0..MaxStreams }

\* process_dir has a video and an output name, and calls the probe.
ProbeInit ==
  /\ root = "dir"
  /\ files = [i \in Items |-> [n \in {<<"clip", "mp4">>} |-> OriginalBytes]]
  /\ rec = [i \in Items |-> Absent]
  /\ pc = "probe"
  /\ idx \in Items
  /\ json_metadata = EmptyDict
  /\ video = <<"clip", "mp4">>
  /\ outfilename \in TmpNames
  /\ blocked_tracks = <<>>
  /\ child = "none"
  /\ p_exitcode = "None"
  /\ ffmpeg_rc = "None"
  /\ old_filesize = 0
  /\ pbar = 0
  /\ ending = "none"
  /\ runs = 1
  /\ md5calls = [i \in Items |-> 0]
  /\ did = {}
  /\ streams \in ProbeResults
  /\ outcommand = <<>>

ProbeFrame ==
  UNCHANGED <<root, files, rec, idx, json_metadata, video, outfilename, child, p_exitcode,
              ffmpeg_rc, old_filesize, pbar, ending, runs, md5calls, did, streams>>

\* get_blocked_streams, lines 96-100, called at line 149.
GetBlockedStreams ==
  /\ pc = "probe"
  /\ blocked_tracks' = BlockedOf(streams)
  /\ pc' = "start"
  /\ UNCHANGED outcommand
  /\ ProbeFrame

\* transcode, lines 154-168: the command is put together.
Transcode ==
  /\ pc = "start"
  /\ outcommand' = Outcommand(dirs[idx], video, blocked_tracks, outfilename)
  /\ pc' = "poll"
  /\ UNCHANGED blocked_tracks
  /\ ProbeFrame

ProbeNext == GetBlockedStreams \/ Transcode

ProbeSpec == ProbeInit /\ [][ProbeNext]_vars

\* ------------------------------------------------------------------ claims
\* The record of item i is on disk, whole, with status complete.
Complete(i) == rec[i].state = "ok" /\ Get(rec[i].data, "status", "") = STATUS_COMPLETE

\* The record of item i is on disk, whole, and holds original.md5.
HasOriginalMd5(i) ==
  rec[i].state = "ok" /\ "md5" \in DOMAIN Get(rec[i].data, "original", EmptyDict)

\* The step is the kill of the running script.
Killed == pc # "idle" /\ pc' = "idle" /\ ending' = "killed"

\* C1: a record on disk has status complete only if it holds the original's
\* digest and the output's digest, the output sits non-empty under
\* <directory-basename>.mp4 with that digest, the file named original.target
\* is there, and the call that wrote the record ran the conversion to its end
\* and made both renames; a call in which a rename failed leaves the record
\* short of complete.
C1_CompleteOnlyAfterCommit ==
  /\ \A i \in Items :
       Complete(i) =>
         LET d == rec[i].data
         IN /\ "md5" \in DOMAIN Get(d, "original", EmptyDict)
            /\ "md5" \in DOMAIN Get(d, "new", EmptyDict)
            /\ "target" \in DOMAIN d.original
            /\ "target" \in DOMAIN d.new
            /\ d.new.target = TargetName(i)
            /\ d.new.target \in Names(files[i])
            /\ files[i][d.new.target].size > 0
            /\ d.new.md5 = Md5(files[i][d.new.target])
            /\ d.original.target \in Names(files[i])
            /\ Splitext(d.original.target) = "orig"
  /\ (pc # "idle" /\ Complete(idx) /\ "write" \in did) =>
       /\ {"ffmpeg", "md5new", "rename1", "rename2"} \subseteq did
       /\ child = "exited"
  /\ "rename_failed" \in did => ~Complete(idx)

C1_Witness ==
  /\ pc = "return"
  /\ Complete(idx)
  /\ {"rename1", "rename2"} \subseteq did

\* C2: whenever a record has status complete, the file named by
\* original.target holds the bytes of the original video (its digest is the
\* recorded original.md5), and <directory-basename>.mp4 holds the output.
C2_OrigHoldsOriginal ==
  \A i \in Items :
    Complete(i) =>
      LET d == rec[i].data
      IN /\ d.original.target \in Names(files[i])
         /\ Md5(files[i][d.original.target]) = d.original.md5
         /\ files[i][d.original.target] = OriginalBytes
         /\ TargetName(i) \in Names(files[i])

\* C3: after a run was killed, a later run that is not killed and meets no
\* fatal error brings every item that has a record to status complete: when
\* process_dir returns on such an item, its record is complete.
C3_ResumeCompletes ==
  (pc = "return" /\ ending = "killed" /\ rec[idx].state = "ok") => Complete(idx)

\* C4: a kill leaves every record on disk absent or whole, never empty or
\* truncated.
C4_NoTornRecordAfterKill ==
  (pc = "idle" /\ ending = "killed") => \A i \in Items : rec[i].state # "torn"

\* C5: once an item's record has status complete, no step of any run changes
\* the item's files or its record or computes its original digest, and
\* process_dir on it returns at once, having computed no digest, run no probe,
\* started no conversion and written nothing.
C5_CompleteIsNoOp ==
  [][ /\ \A i \in Items :
           Complete(i) =>
             /\ files'[i] = files[i]
             /\ rec'[i] = rec[i]
             /\ md5calls'[i] = md5calls[i]
      /\ (pc = "load" /\ Complete(idx) /\ ~Killed) =>
           /\ pc' = "return"
           /\ did' = {}
           /\ child' = "none"
           /\ files' = files
           /\ rec' = rec
    ]_vars

C5_Witness ==
  /\ pc = "return"
  /\ runs > 1
  /\ Complete(idx)
  /\ did = {}

\* C6: when the conversion has ended and the output file is empty, the driver
\* goes on to delete it and nothing else, and with the deletion the run ends
\* fatally, with exit code 1 and the item's record not complete.
C6_EmptyOutputIsFatal ==
  [][ /\ (pc = "checksize" /\ outfilename \in Names(files[idx])
            /\ files[idx][outfilename].size = 0 /\ ~Killed) =>
           /\ pc' = "remove"
           /\ files' = files
           /\ rec' = rec
      /\ (pc = "remove" /\ ~Killed) =>
           /\ outfilename \notin Names(files'[idx])
           /\ \A n \in Names(files[idx]) \ {outfilename} :
                n \in Names(files'[idx]) /\ files'[idx][n] = files[idx][n]
           /\ pc' = "idle"
           /\ ending' = "zero"
           /\ ExitCode(ending') = 1
           /\ rec' = rec
           /\ ~Complete(idx)
    ]_vars

C6_Witness ==
  /\ pc = "idle"
  /\ ending = "zero"
  /\ "removed" \in did
  /\ ~Complete(idx)

\* C7: when ffmpeg exits with a non-zero code, the conversion counts as
\* failed: the driver makes no rename and does not write status complete.
C7_FailedConversionNotCommitted ==
  ffmpeg_rc = "1" =>
    /\ did \cap {"rename1", "rename2"} = {}
    /\ ~Complete(idx)

\* C8 as claimed: over all runs, kills included, the original's digest is
\* computed at most once per item.
C8_DigestAtMostOnce == \A i \in Items : md5calls[i] <= 1

\* C8 as amended: the original's digest is computed only for the current item,
\* only while no record holding original.md5 is on disk (nor a torn one), one
\* computation per run; the step that computes it puts it in the record the
\* next step writes; and once a record was written for the item no run
\* computes it again.
C8_DigestOnlyWhenUnrecorded ==
  [][ \A i \in Items :
        /\ md5calls'[i] # md5calls[i] =>
             /\ i = idx
             /\ md5calls'[i] = md5calls[i] + 1
             /\ ~HasOriginalMd5(i)
             /\ rec[i].state # "torn"
             /\ "md5orig" \notin did
             /\ pc' = "open1"
             /\ json_metadata'.original.md5 = Md5(files[i][video])
        /\ rec[i].state # "absent" => md5calls'[i] = md5calls[i]
    ]_vars

C8_Witness ==
  /\ pc = "open1"
  /\ runs > 1
  /\ HasOriginalMd5(idx)
  /\ md5calls[idx] = 1
  /\ "md5orig" \notin did

\* C9: when process_dir returns on an item whose record holds original.md5 and
\* no new section, that call has started the conversion and has not computed
\* the original's digest.
C9_ResumeConverts ==
  (pc = "return" /\ HasOriginalMd5(idx) /\ "new" \notin DOMAIN rec[idx].data) =>
    /\ "ffmpeg" \in did
    /\ "md5orig" \notin did

\* The names of item i with a recognized extension in any letter case.
Candidates(i) ==
  {x \in Names(files[i]) :
     Len(x) > 1 /\ x[Len(x)] \in {"mp4", "MP4", "Mp4", "mP4", "m4v", "M4V", "m4V", "M4v"}}

\* C10: with no candidate video in the directory, or more than one,
\* process_dir returns having changed no file and no record, computed no
\* digest, run no probe, started no conversion and picked no video; and main
\* goes on with the next directory.
C10_AmbiguousIsSkipped ==
  [][ /\ (pc = "list" /\ Cardinality(Candidates(idx)) # 1 /\ ~Killed) =>
           /\ pc' = "return"
           /\ files' = files
           /\ rec' = rec
           /\ md5calls' = md5calls
           /\ did' = {}
           /\ video' = NoName
           /\ child' = "none"
      /\ (pc = "return" /\ did = {} /\ idx < Len(dirs) /\ ~Killed) =>
           /\ pc' = "load"
           /\ idx' = idx + 1
           /\ files' = files
           /\ rec' = rec
    ]_vars

C10_Witness ==
  /\ pc = "load"
  /\ idx = 2
  /\ Cardinality(Candidates(1)) = 2
  /\ rec[1].state = "absent"
  /\ files[1] \in InitialListings

\* C11: a run that was not killed ends with exit code 1 exactly when the root
\* is no directory, the probe failed or a conversion left an empty output, and
\* with exit code 0 in every other case.  (Stated for the runs that met no
\* truncated record: those of C4 aside, the other outcomes decide it.)
C11_ExitCodes ==
  (pc = "idle" /\ runs > 0 /\ ending # "killed"
     /\ \A i \in Items : rec[i].state # "torn") =>
    /\ ExitCode(ending) = 1 <=> ending \in {"notdir", "probe", "zero"}
    /\ ExitCode(ending) = 0 <=> ending \notin {"notdir", "probe", "zero"}

\* C12: when process_dir returns in a first run (no kill, no fatal error, no
\* failed tool before it), either the directory is as it was and held no or
\* several candidate videos, or it held exactly one video V and now holds
\* V.orig with the original bytes and <directory-basename>.mp4, non-empty, and
\* nothing else, and the record has status complete, both digests,
\* original.target = V.orig and new.target = <directory-basename>.mp4.
C12_EndToEnd ==
  (runs = 1 /\ pc = "return") =>
    IF files[idx] \in InitialListings
    THEN Cardinality(Candidates(idx)) # 1 /\ rec[idx].state = "absent"
    ELSE /\ rec[idx].state = "ok"
         /\ LET d == rec[idx].data
                V == d.original.filename
                out == <<dirs[idx], "mp4">>
            IN /\ Names(files[idx]) = {Append(V, "orig"), out}
               /\ \E L \in InitialListings : Names(L) = {V}
               /\ files[idx][Append(V, "orig")] = OriginalBytes
               /\ files[idx][out].size > 0
               /\ d.status = "complete"
               /\ d.original.md5 = Md5(OriginalBytes)
               /\ d.new.md5 = Md5(files[idx][out])
               /\ d.original.target = Append(V, "orig")
               /\ d.new.target = out

C12_Witness ==
  /\ runs = 1
  /\ pc = "return"
  /\ files[idx] \notin InitialListings
  /\ rec[idx].data.new.target = <<dirs[idx], "mp4">>

\* After a fatal end of a first run, the directories after the current one are
\* as they were before the run.
LaterItemsUntouched ==
  (pc = "idle" /\ runs = 1 /\ ending \in {"probe", "zero"}) =>
    \A j \in Items :
      j > idx => files[j] \in InitialListings /\ rec[j].state = "absent" /\ md5calls[j] = 0

InLoop == pc \in {"poll", "exitcode"}

\* The driver is past the loop, inside process_dir.
AfterLoop ==
  pc \in {"checksize", "remove", "open2", "dump2", "md5new", "rename1", "rename2",
          "open3", "dump3"}

\* C14: the monitor loop is left (the kill of the script aside) only by the
\* test of line 191 finding the child's exit code, and that test leaves it
\* whenever the child has exited; while the child runs the loop goes round
\* whatever the output file holds; the size check, the output digest and the
\* renames happen only with the child exited; and once the child has exited
\* the loop comes to its end.
C14_LoopEndsOnExitCode ==
  /\ [][ /\ (InLoop /\ ~InLoop' /\ ~Killed) =>
              pc = "exitcode" /\ child = "exited" /\ pc' = "checksize" /\ p_exitcode' = "0"
         /\ (pc = "exitcode" /\ child = "exited" /\ ~Killed) => pc' = "checksize"
         /\ (pc = "exitcode" /\ child # "exited" /\ ~Killed /\ pc' # pc) =>
              pc' = "poll" /\ p_exitcode' = "None"
       ]_vars
  /\ [](AfterLoop => child = "exited" /\ p_exitcode = "0")
  /\ []((pc # "idle" /\ did \cap {"removed", "md5new", "rename1", "rename2"} # {}) =>
          child = "exited")
  /\ ((InLoop /\ child = "exited") ~> ~InLoop)

C14_Witness ==
  /\ pc = "checksize"
  /\ child = "exited"
  /\ p_exitcode = "0"
  /\ pbar > 0
  /\ pbar < files[idx][outfilename].size

\* The driver is between the draw of the temporary name and the first rename.
Attempting ==
  pc \in {"probe", "start", "poll", "exitcode", "checksize", "remove", "open2", "dump2",
          "md5new"}

\* C15: the name drawn at line 147 differs from the source's and from every
\* name in the item directory, and from the draw to the commit renames no
\* step changes the source file's name or bytes.
C15_FreshTempName ==
  [][ /\ (pc = "tmpname" /\ pc' = "probe") =>
           outfilename' # video /\ outfilename' \notin Names(files[idx])
      /\ (Attempting /\ video \in Names(files[idx])) =>
           video \in Names(files'[idx]) /\ files'[idx][video] = files[idx][video]
    ]_vars

\* The streams of the probe whose codec_name is eia_608, in probe order.
CaptionStreams ==
  SelectSeq(streams, LAMBDA s : "codec_name" \in DOMAIN s /\ s.codec_name = "eia_608")

\* C16: get_blocked_streams gives, in probe order, the selector 0:<index> of
\* each stream whose codec_name is eia_608 and nothing for any other stream,
\* a stream without codec_name included; the command is the fixed head ending
\* in -map 0, then -map -<selector> for each selector in the same order, then
\* the output path.
C16_SelectorsAndCommand ==
  /\ pc \in {"start", "poll"} =>
       /\ Len(blocked_tracks) = Len(CaptionStreams)
       /\ \A k \in 1..Len(CaptionStreams) :
            blocked_tracks[k] = "0:" \o ToString(CaptionStreams[k].index)
  /\ pc = "poll" =>
       LET n == Len(blocked_tracks)
       IN /\ Len(outcommand) = 9 + 2 * n + 1
          /\ SubSeq(outcommand, 1, 9) =
               <<"ffmpeg", "-v", "warning", "-i", dirs[idx] \o "/clip.mp4", "-c", "copy",
                 "-map", "0">>
          /\ \A k \in 1..n :
               /\ outcommand[9 + 2 * k - 1] = "-map"
               /\ outcommand[9 + 2 * k] = "-" \o blocked_tracks[k]
          /\ \E t \in 1..MaxTmp :
               outcommand[9 + 2 * n + 1] = dirs[idx] \o "/tmp" \o ToString(t) \o ".mp4"
          /\ outcommand[9 + 2 * n + 1] = PathJoin(dirs[idx], outfilename)

C16_Witness ==
  /\ pc = "poll"
  /\ Len(streams) = 4
  /\ blocked_tracks = <<"0:1", "0:3">>
  /\ "codec_name" \notin DOMAIN streams[3]
  /\ Len(outcommand) = 14

\* C17: a record on disk with status complete holds original.md5,
\* original.target, new.filename, new.md5, new.target, timestamp and
\* isotimestamp, the file named by new.target is in the item directory with the
\* recorded digest; and a record on disk holds a timestamp field only if its
\* status is complete.
C17_CompleteRecordIsWhole ==
  \A i \in Items :
    /\ Complete(i) =>
         LET d == rec[i].data
         IN /\ {"original", "new", "timestamp", "isotimestamp"} \subseteq DOMAIN d
            /\ {"md5", "target"} \subseteq DOMAIN d.original
            /\ {"filename", "md5", "target"} \subseteq DOMAIN d.new
            /\ d.new.target \in Names(files[i])
            /\ Md5(files[i][d.new.target]) = d.new.md5
    /\ (rec[i].state = "ok" /\ DOMAIN rec[i].data \cap {"timestamp", "isotimestamp"} # {}) =>
         rec[i].data.status = "complete"

C17_Witness ==
  /\ Complete(1)
  /\ "isotimestamp" \in DOMAIN rec[1].data
  /\ rec[2].state = "ok"
  /\ "new" \in DOMAIN rec[2].data
  /\ "timestamp" \notin DOMAIN rec[2].data

\* C18: after each poll the progress reported so far is the output size the
\* poll observed, and when the loop has ended it is the size the output file
\* has then.
C18_ProgressIsFinalSize ==
  /\ pc \in {"exitcode", "checksize"} => pbar = old_filesize
  /\ (pc = "checksize" /\ outfilename \in Names(files[idx])) =>
       pbar = files[idx][outfilename].size
====
